---- MODULE Spec2Model ----
(***************************************************************************)
(* Model of dwdwfsapi.core.query_dwd: key normalisation, percent-encoding  *)
(* of the values, construction of the WFS query URL, float coercion of the *)
(* timeout, one GET request, and the handling of its outcomes.             *)
(*                                                                         *)
(* Python strings are sequences of one-character strings, so that          *)
(* str.lower, urllib.parse.quote and float are modelled character by       *)
(* character.                                                              *)
(***************************************************************************)
EXTENDS Integers, Sequences, FiniteSets, TLC

\* Largest number of keyword arguments of one call.
MaxArgs ==
    3

----------------------------------------------------------------------------
\* Characters

\* The printable ASCII characters; ASCII[i] has code point i + 31 ("GRAVE"
\* stands for the grave accent, code point 96).
ASCII ==
    <<" ","!","\"","#","$","%","&","'","(",")","*","+",",","-",".","/","0",
      "1","2","3","4","5","6","7","8","9",":",";","<","=",">","?","@","A","B",
      "C","D","E","F","G","H","I","J","K","L","M","N","O","P","Q","R","S","T",
      "U","V","W","X","Y","Z","[","\\","]","^","_","GRAVE","a","b","c","d","e",
      "f","g","h","i","j","k","l","m","n","o","p","q","r","s","t","u","v","w",
      "x","y","z","{","|","}","~">>

UPPER ==
    <<"A","B","C","D","E","F","G","H","I","J","K","L","M","N","O","P","Q","R",
      "S","T","U","V","W","X","Y","Z">>

LOWER ==
    <<"a","b","c","d","e","f","g","h","i","j","k","l","m","n","o","p","q","r",
      "s","t","u","v","w","x","y","z">>

DIGITS ==
    <<"0","1","2","3","4","5","6","7","8","9">>

HEXDIGITS ==
    <<"0","1","2","3","4","5","6","7","8","9","A","B","C","D","E","F">>

Range(s) ==
    {s[i] : i \in 1..Len(s)}

IndexOf(s, c) ==
    CHOOSE i \in 1..Len(s) : s[i] = c

\* ord(c) for a printable ASCII character.
Ord(c) ==
    IndexOf(ASCII, c) + 31

\* chr(n); n outside the printable range is not a character of the model.
Chr(n) ==
    ASCII[n - 31]

IsDigit(c) ==
    c \in Range(DIGITS)

DigitVal(c) ==
    IndexOf(DIGITS, c) - 1

----------------------------------------------------------------------------
\* str.lower

LowerChar(c) ==
    IF c \in Range(UPPER) THEN LOWER[IndexOf(UPPER, c)] ELSE c

\* the keys used as given
Lower_AsGiven(s) ==
    s

\* k.lower()
Lower(s) ==
    [i \in 1..Len(s) |-> LowerChar(s[i])]

----------------------------------------------------------------------------
\* urllib.parse.quote(v) with its default safe = "/"

\* The characters quote never encodes: letters, digits, "_.-~", and "/".
AlwaysSafe ==
    Range(UPPER) \cup Range(LOWER) \cup Range(DIGITS) \cup {"_", ".", "-", "~"}

\* quote with ":" taken for a safe character
QuoteSafe_ColonSafe ==
    AlwaysSafe \cup {"/", ":"}

\* quote leaving "%" alone, so as not to encode twice
QuoteSafe_PercentSafe ==
    AlwaysSafe \cup {"/", "%"}

QuoteSafe ==
    AlwaysSafe \cup {"/"}

QuoteChar(c) ==
    IF c \in QuoteSafe
    THEN <<c>>
    ELSE <<"%", HEXDIGITS[(Ord(c) \div 16) + 1], HEXDIGITS[(Ord(c) % 16) + 1]>>

RECURSIVE Quote(_)
Quote(s) ==
    IF s = <<>> THEN <<>> ELSE QuoteChar(Head(s)) \o Quote(Tail(s))

----------------------------------------------------------------------------
\* urllib.parse.unquote, the decoding the values are later read with

HexVal(c) ==
    IF c \in Range(HEXDIGITS)
    THEN IndexOf(HEXDIGITS, c) - 1
    ELSE IndexOf(LOWER, c) + 9

IsHex(c) ==
    c \in Range(HEXDIGITS) \cup {"a", "b", "c", "d", "e", "f"}

IsEscape(s) ==
    /\ Len(s) >= 3
    /\ s[1] = "%"
    /\ IsHex(s[2])
    /\ IsHex(s[3])
    /\ 16 * HexVal(s[2]) + HexVal(s[3]) \in 32..126

RECURSIVE Unquote(_)
Unquote(s) ==
    IF s = <<>> THEN <<>>
    ELSE IF IsEscape(s)
         THEN <<Chr(16 * HexVal(s[2]) + HexVal(s[3]))>>
              \o Unquote(SubSeq(s, 4, Len(s)))
         ELSE <<Head(s)>> \o Unquote(Tail(s))

----------------------------------------------------------------------------
\* float(x) for a string x

\* A float is kept exactly, as m * 10^e with m not divisible by 10 (zero is
\* m = 0, e = 0); kind tells the infinities and the NaN from the finite
\* values.
RECURSIVE Normalise(_, _)
Normalise(m, e) ==
    IF m = 0 THEN [kind |-> "finite", m |-> 0, e |-> 0]
    ELSE IF m % 10 = 0 THEN Normalise(m \div 10, e + 1)
    ELSE [kind |-> "finite", m |-> m, e |-> e]

\* DEFAULT_TIMEOUT = 10.0
DEFAULT_TIMEOUT ==
    [kind |-> "finite", m |-> 1, e |-> 1]

IsSpace(c) ==
    c = " "

RECURSIVE LStrip(_)
LStrip(s) ==
    IF s # <<>> /\ IsSpace(Head(s)) THEN LStrip(Tail(s)) ELSE s

RECURSIVE RStrip(_)
RStrip(s) ==
    IF s # <<>> /\ IsSpace(s[Len(s)])
    THEN RStrip(SubSeq(s, 1, Len(s) - 1))
    ELSE s

Strip(s) ==
    RStrip(LStrip(s))

\* s[i] is a digit: the index after the digits (single underscores between
\* digits allowed) that start at i.
RECURSIVE ScanDigits(_, _)
ScanDigits(s, i) ==
    IF i + 1 <= Len(s) /\ IsDigit(s[i + 1]) THEN ScanDigits(s, i + 1)
    ELSE IF i + 2 <= Len(s) /\ s[i + 1] = "_" /\ IsDigit(s[i + 2])
         THEN ScanDigits(s, i + 2)
         ELSE i + 1

DigitsEnd(s, i) ==
    IF i <= Len(s) /\ IsDigit(s[i]) THEN ScanDigits(s, i) ELSE i

\* The number written by the digits of s[i..j-1], read after acc.
RECURSIVE DigitsValue(_, _, _, _)
DigitsValue(s, i, j, acc) ==
    IF i >= j THEN acc
    ELSE IF IsDigit(s[i])
         THEN DigitsValue(s, i + 1, j, 10 * acc + DigitVal(s[i]))
         ELSE DigitsValue(s, i + 1, j, acc)

DigitsCount(s, i, j) ==
    Cardinality({n \in i..(j - 1) : IsDigit(s[n])})

RECURSIVE Pow10(_)
Pow10(n) ==
    IF n = 0 THEN 1 ELSE 10 * Pow10(n - 1)

FloatError ==
    [ok |-> FALSE, val |-> [kind |-> "nan", m |-> 0, e |-> 0]]

\* float(raw): surrounding whitespace is stripped; then an optional sign and
\* either inf, infinity or nan in any casing, or a decimal literal, digits
\* with an optional fraction and an optional exponent.  ok is FALSE where
\* Python raises ValueError.
ParseFloat(raw) ==
    LET s         == Strip(raw)
        n         == Len(s)
        signed    == n >= 1 /\ s[1] \in {"+", "-"}
        sign      == IF signed /\ s[1] = "-" THEN -1 ELSE 1
        i1        == IF signed THEN 2 ELSE 1
        body      == Lower(SubSeq(s, i1, n))
        intEnd    == DigitsEnd(s, i1)
        hasDot    == intEnd <= n /\ s[intEnd] = "."
        fracStart == IF hasDot THEN intEnd + 1 ELSE intEnd
        fracEnd   == DigitsEnd(s, fracStart)
        hasExp    == fracEnd <= n /\ s[fracEnd] \in {"e", "E"}
        expSigned == hasExp /\ fracEnd + 1 <= n /\ s[fracEnd + 1] \in {"+", "-"}
        expStart  == IF expSigned THEN fracEnd + 2 ELSE fracEnd + 1
        expEnd    == IF hasExp THEN DigitsEnd(s, expStart) ELSE fracEnd
        mantOk    == intEnd > i1 \/ fracEnd > fracStart
        expOk     == ~hasExp \/ expEnd > expStart
        nfrac     == DigitsCount(s, fracStart, fracEnd)
        mant      == DigitsValue(s, i1, intEnd, 0) * Pow10(nfrac)
                     + DigitsValue(s, fracStart, fracEnd, 0)
        expVal    == IF hasExp THEN DigitsValue(s, expStart, expEnd, 0) ELSE 0
        exp       == (IF expSigned /\ s[fracEnd + 1] = "-" THEN -expVal ELSE expVal)
                     - nfrac
    IN  IF body \in {<<"i","n","f">>, <<"i","n","f","i","n","i","t","y">>}
        THEN [ok |-> TRUE, val |-> [kind |-> "inf", m |-> sign, e |-> 0]]
        ELSE IF body = <<"n","a","n">>
        THEN [ok |-> TRUE, val |-> [kind |-> "nan", m |-> 0, e |-> 0]]
        ELSE IF mantOk /\ expOk /\ expEnd = n + 1
        THEN [ok |-> TRUE, val |-> Normalise(sign * mant, exp)]
        ELSE FloatError

----------------------------------------------------------------------------
\* dict, as the sequence of its items in insertion order

HasKey(d, k) ==
    \E i \in 1..Len(d) : d[i].k = k

\* d[k], for a key d has
DictIndex(d, k) ==
    d[CHOOSE i \in 1..Len(d) : d[i].k = k].v

\* d.get(k, default)
DictGet(d, k, default) ==
    IF HasKey(d, k) THEN DictIndex(d, k) ELSE default

\* d[k] = v: a key d has keeps its place, a new key goes last
DictSet(d, k, v) ==
    IF HasKey(d, k)
    THEN [i \in 1..Len(d) |-> IF d[i].k = k THEN [k |-> k, v |-> v] ELSE d[i]]
    ELSE Append(d, [k |-> k, v |-> v])

\* sep.join(parts)
RECURSIVE Join(_, _)
Join(sep, parts) ==
    IF parts = <<>> THEN <<>>
    ELSE IF Len(parts) = 1 THEN parts[1]
    ELSE parts[1] \o sep \o Join(sep, Tail(parts))

----------------------------------------------------------------------------
\* Module constants and the literals of query_dwd

DEFAULT_WFS_VERSION ==
    <<"2",".","0",".","0">>

DEFAULT_WFS_REQUEST ==
    <<"G","e","t","F","e","a","t","u","r","e">>

DEFAULT_WFS_OUTPUTFORMAT ==
    <<"a","p","p","l","i","c","a","t","i","o","n","/","j","s","o","n">>

base_url ==
    <<"h","t","t","p","s",":","/","/","m","a","p","s",".","d","w","d",".","d",
      "e","/","g","e","o","s","e","r","v","e","r","/","d","w","d","/","o","w",
      "s","?","s","e","r","v","i","c","e","=","W","F","S">>

K_version ==
    <<"v","e","r","s","i","o","n">>

K_request ==
    <<"r","e","q","u","e","s","t">>

K_typename ==
    <<"t","y","p","e","n","a","m","e">>

K_outputformat ==
    <<"o","u","t","p","u","t","f","o","r","m","a","t">>

K_cql_filter ==
    <<"c","q","l","_","f","i","l","t","e","r">>

K_CQL_FILTER ==
    <<"C","Q","L","_","F","I","L","T","E","R">>

K_timeout ==
    <<"t","i","m","e","o","u","t">>

----------------------------------------------------------------------------
\* Spellings of keys a caller may use, and values

K_TypeName ==
    <<"T","y","p","e","N","a","m","e">>

K_CQL_Filter ==
    <<"C","Q","L","_","F","i","l","t","e","r">>

K_TIMEOUT ==
    <<"T","I","M","E","O","U","T">>

K_bbox ==
    <<"b","b","o","x">>

V_Gemeinden ==
    <<"d","w","d",":","W","a","r","n","u","n","g","e","n","_","G","e","m","e",
      "i","n","d","e","n">>

V_GemeindenEncoded ==
    <<"d","w","d","%","3","A","W","a","r","n","u","n","g","e","n","_","G","e",
      "m","e","i","n","d","e","n">>

V_Warncell ==
    <<"W","A","R","N","C","E","L","L","I","D","=","8","0","7","0","5","5","0",
      "1","7">>

V_Filter ==
    <<"S","E","V","E","R","I","T","Y"," ","="," ","'","M","i","n","o","r","'",
      " ","&"," ","E","C","_","I","I","<",">","5","1">>

V_Version ==
    <<"1",".","1",".","0">>

V_Bbox ==
    <<"5",".","8",",","4","7",".","2">>

\* A Python value of a keyword argument: a str, or a number (an int or a
\* float, as the docstring's "timeout: Request timeout in seconds" invites).
Str(s) ==
    [t |-> "str", s |-> s]

Num(s) ==
    [t |-> "number", s |-> s]

Arg(k, v) ==
    [k |-> k, v |-> v]

\* The keyword arguments one call may be given.
ArgPairs ==
    {Arg(K_typename, Str(V_Gemeinden)),
     Arg(K_typename, Str(V_GemeindenEncoded)),
     Arg(K_TypeName, Str(V_Gemeinden)),
     Arg(K_cql_filter, Str(V_Warncell)),
     Arg(K_CQL_Filter, Str(V_Filter)),
     Arg(K_timeout, Str(<<"5">>)),
     Arg(K_timeout, Str(<<"+","5">>)),
     Arg(K_timeout, Str(<<"1","e","+","2">>)),
     Arg(K_timeout, Str(<<" ","5"," ">>)),
     Arg(K_timeout, Str(<<"a","b","c">>)),
     Arg(K_timeout, Num(<<"5">>)),
     Arg(K_TIMEOUT, Str(<<"2",".","5">>)),
     Arg(K_outputformat, Str(DEFAULT_WFS_OUTPUTFORMAT)),
     Arg(K_version, Str(V_Version)),
     Arg(K_request, Str(DEFAULT_WFS_REQUEST)),
     Arg(K_bbox, Str(V_Bbox))}

\* **kwargs: the arguments in the order given; a keyword is not repeated.
Inputs ==
    UNION {{a \in [1..n -> ArgPairs] :
               \A i, j \in 1..n : a[i].k = a[j].k => i = j} : n \in 0..MaxArgs}

----------------------------------------------------------------------------
\* The steps of query_dwd as functions of the arguments

AllStr(a) ==
    \A i \in 1..Len(a) : a[i].v.t = "str"

\* {k.lower(): urllib.parse.quote(v) for k, v in kwargs.items()}, for
\* arguments that are all str
RECURSIVE Comprehension(_, _)
Comprehension(a, acc) ==
    IF a = <<>> THEN acc
    ELSE Comprehension(Tail(a),
                       DictSet(acc, Lower(Head(a).k), Quote(Head(a).v.s)))

NormalizeKwargs(a) ==
    Comprehension(a, <<>>)

\* The key the early return looks for
RequiredKey ==
    K_typename

\* the CQL filter under its lower-case key
CqlFilterKey_LowerCase ==
    K_cql_filter

\* The key the CQL filter goes under in the URL
CqlFilterKey ==
    K_CQL_FILTER

\* query_params, for kwargs that has typename
QueryParams(kw) ==
    LET params ==
            <<[k |-> K_version,
               v |-> DictGet(kw, K_version, DEFAULT_WFS_VERSION)],
              [k |-> K_request,
               v |-> DictGet(kw, K_request, DEFAULT_WFS_REQUEST)],
              [k |-> K_typename,
               v |-> DictIndex(kw, K_typename)],
              [k |-> K_outputformat,
               v |-> DictGet(kw, K_outputformat, DEFAULT_WFS_OUTPUTFORMAT)]>>
    IN  IF HasKey(kw, K_cql_filter)
        THEN DictSet(params, CqlFilterKey, DictIndex(kw, K_cql_filter))
        ELSE params

\* base_url + "&" + "&".join(f"{k}={v}" for k, v in query_params.items())
BuildQuery(kw) ==
    LET params == QueryParams(kw)
    IN  base_url \o <<"&">>
        \o Join(<<"&">>,
                [i \in 1..Len(params) |-> params[i].k \o <<"=">> \o params[i].v])

\* float(kwargs.get("timeout", DEFAULT_TIMEOUT))
CoerceTimeout(kw) ==
    IF HasKey(kw, K_timeout)
    THEN ParseFloat(DictIndex(kw, K_timeout))
    ELSE [ok |-> TRUE, val |-> DEFAULT_TIMEOUT]

----------------------------------------------------------------------------
\* Python values returned, and the server's answers

None ==
    [py |-> "None"]

\* the variable has no value yet
Unset ==
    [py |-> "unset"]

FeatureCollection ==
    [py |-> "dict",
     items |-> <<<<"type", "FeatureCollection">>, <<"features", <<>>>>>>]

BODY_FEATURES ==
    "{\"type\":\"FeatureCollection\",\"features\":[]}"

BODY_NULL ==
    "null"

BODY_HTML ==
    "<html>Service Unavailable</html>"

Bodies ==
    {BODY_FEATURES, BODY_NULL, BODY_HTML}

Statuses ==
    {200, 300, 404, 500}

\* What requests.get raises instead of returning a response
RequestFailures ==
    {"ConnectionError", "Timeout"}

NoResponse ==
    [status |-> 0, body |-> ""]

\* response.json(): ok is FALSE where it raises JSONDecodeError
JsonDecode(body) ==
    CASE body = BODY_FEATURES -> [ok |-> TRUE, val |-> FeatureCollection]
      [] body = BODY_NULL     -> [ok |-> TRUE, val |-> None]
      [] OTHER                -> [ok |-> FALSE, val |-> None]

\* raise_for_status raising for 5xx only
IsHTTPError_ServerOnly(status) ==
    status \in 500..599

\* response.raise_for_status() raises HTTPError for 4xx and 5xx
IsHTTPError(status) ==
    status \in 400..599

\* except (requests.RequestException, ValueError)
Caught ==
    {"ConnectionError", "Timeout", "HTTPError", "JSONDecodeError"}

----------------------------------------------------------------------------
\* One call of query_dwd

VARIABLES
    pc,        \* the statement the call is at
    args,      \* **kwargs as passed by the caller
    kwargs,    \* the local kwargs after line 37
    query,     \* the local query
    timeout,   \* the local timeout
    response,  \* the local response
    exc,       \* the exception being raised inside the try block, or ""
    outcome,   \* "running", "returned" or "raised"
    result,    \* the value returned
    raised,    \* the exception that left the function, or ""
    sent,      \* the GET requests made, each its url and timeout
    stdout     \* what print has written

vars ==
    <<pc, args, kwargs, query, timeout, response, exc, outcome, result,
      raised, sent, stdout>>

Init ==
    /\ pc = "call"
    /\ args = <<>>
    /\ kwargs = <<>>
    /\ query = <<>>
    /\ timeout = Unset
    /\ response = NoResponse
    /\ exc = ""
    /\ outcome = "running"
    /\ result = Unset
    /\ raised = ""
    /\ sent = <<>>
    /\ stdout = <<>>

\* The caller calls query_dwd(**a).
Call ==
    /\ pc = "call"
    /\ \E a \in Inputs : args' = a
    /\ pc' = "normalize"
    /\ UNCHANGED <<kwargs, query, timeout, response, exc, outcome, result,
                   raised, sent, stdout>>

\* Line 37.  quote raises TypeError for a value that is not a str.
Normalize ==
    /\ pc = "normalize"
    /\ IF AllStr(args)
       THEN /\ kwargs' = NormalizeKwargs(args)
            /\ pc' = "check"
            /\ UNCHANGED <<outcome, raised>>
       ELSE /\ outcome' = "raised"
            /\ raised' = "TypeError"
            /\ pc' = "done"
            /\ UNCHANGED kwargs
    /\ UNCHANGED <<args, query, timeout, response, exc, result, sent, stdout>>

\* Lines 40-41 without the return
CheckTypename_NoReturn ==
    /\ pc = "check"
    /\ pc' = "build"
    /\ UNCHANGED <<args, kwargs, query, timeout, response, exc, outcome,
                   result, raised, sent, stdout>>

\* Lines 40-41.
CheckTypename ==
    /\ pc = "check"
    /\ IF ~HasKey(kwargs, RequiredKey)
       THEN /\ outcome' = "returned"
            /\ result' = None
            /\ pc' = "done"
       ELSE /\ pc' = "build"
            /\ UNCHANGED <<outcome, result>>
    /\ UNCHANGED <<args, kwargs, query, timeout, response, exc, raised, sent,
                   stdout>>

\* Lines 44-57.  kwargs["typename"] raises KeyError for a missing key.
Build ==
    /\ pc = "build"
    /\ IF HasKey(kwargs, K_typename)
       THEN /\ query' = BuildQuery(kwargs)
            /\ pc' = "timeout"
            /\ UNCHANGED <<outcome, raised>>
       ELSE /\ outcome' = "raised"
            /\ raised' = "KeyError"
            /\ pc' = "done"
            /\ UNCHANGED query
    /\ UNCHANGED <<args, kwargs, timeout, response, exc, result, sent, stdout>>

\* Line 60, outside the try block: a ValueError of float leaves the function.
SetTimeout ==
    /\ pc = "timeout"
    /\ LET f == CoerceTimeout(kwargs)
       IN  IF f.ok
           THEN /\ timeout' = f.val
                /\ pc' = "get"
                /\ UNCHANGED <<outcome, raised>>
           ELSE /\ outcome' = "raised"
                /\ raised' = "ValueError"
                /\ pc' = "done"
                /\ UNCHANGED timeout
    /\ UNCHANGED <<args, kwargs, query, response, exc, result, sent, stdout>>

\* Line 64: requests.get(query, timeout=timeout) either raises a
\* RequestException or returns the server's response.
Get ==
    /\ pc = "get"
    /\ sent' = Append(sent, [url |-> query, timeout |-> timeout])
    /\ \/ /\ \E e \in RequestFailures : exc' = e
          /\ pc' = "except"
          /\ UNCHANGED response
       \/ /\ \E s \in Statuses, b \in Bodies :
                response' = [status |-> s, body |-> b]
          /\ pc' = "raise_for_status"
          /\ UNCHANGED exc
    /\ UNCHANGED <<args, kwargs, query, timeout, outcome, result, raised,
                   stdout>>

\* Line 65.
RaiseForStatus ==
    /\ pc = "raise_for_status"
    /\ IF IsHTTPError(response.status)
       THEN /\ exc' = "HTTPError"
            /\ pc' = "except"
       ELSE /\ pc' = "json"
            /\ UNCHANGED exc
    /\ UNCHANGED <<args, kwargs, query, timeout, response, outcome, result,
                   raised, sent, stdout>>

\* Line 66.
ReturnJson ==
    /\ pc = "json"
    /\ LET j == JsonDecode(response.body)
       IN  IF j.ok
           THEN /\ outcome' = "returned"
                /\ result' = j.val
                /\ pc' = "done"
                /\ UNCHANGED exc
           ELSE /\ exc' = "JSONDecodeError"
                /\ pc' = "except"
                /\ UNCHANGED <<outcome, result>>
    /\ UNCHANGED <<args, kwargs, query, timeout, response, raised, sent,
                   stdout>>

\* Lines 67-70 without the print
Except_Silent ==
    /\ pc = "except"
    /\ outcome' = "returned"
    /\ result' = None
    /\ pc' = "done"
    /\ UNCHANGED <<args, kwargs, query, timeout, response, exc, raised, sent,
                   stdout>>

\* Lines 67-70.
Except ==
    /\ pc = "except"
    /\ IF exc \in Caught
       THEN /\ stdout' = Append(stdout, exc)
            /\ outcome' = "returned"
            /\ result' = None
            /\ UNCHANGED raised
       ELSE /\ outcome' = "raised"
            /\ raised' = exc
            /\ UNCHANGED <<stdout, result>>
    /\ pc' = "done"
    /\ UNCHANGED <<args, kwargs, query, timeout, response, exc, sent>>

Next ==
    \/ Call
    \/ Normalize
    \/ CheckTypename
    \/ Build
    \/ SetTimeout
    \/ Get
    \/ RaiseForStatus
    \/ ReturnJson
    \/ Except

Spec ==
    Init /\ [][Next]_vars

----------------------------------------------------------------------------
\* The caller's view of the arguments, used to state the properties

KeySpellings ==
    {K_typename, K_TypeName, K_cql_filter, K_CQL_Filter, K_CQL_FILTER,
     K_timeout, K_TIMEOUT, K_outputformat, K_version, K_request, K_bbox}

\* k1 and k2 differ at most in the casing of their letters.
SameLetters(k1, k2) ==
    /\ Len(k1) = Len(k2)
    /\ \A i \in 1..Len(k1) :
          \/ k1[i] = k2[i]
          \/ \E j \in 1..Len(UPPER) : {k1[i], k2[i]} = {UPPER[j], LOWER[j]}

\* The caller gave the parameter name, in some casing.
Supplies(a, name) ==
    \E i \in 1..Len(a) : SameLetters(a[i].k, name)

\* The value the caller gave for name: of several spellings the last counts.
Supplied(a, name) ==
    LET is == {i \in 1..Len(a) : SameLetters(a[i].k, name)}
    IN  a[CHOOSE i \in is : \A j \in is : j <= i].v

\* The argument lists that differ from a only in the casing of the keys.
RECURSIVE CaseVariants(_)
CaseVariants(a) ==
    IF a = <<>> THEN {<<>>}
    ELSE {<<Arg(k2, Head(a).v)>> \o r :
             k2 \in {k \in KeySpellings : SameLetters(k, Head(a).k)},
             r \in CaseVariants(Tail(a))}

\* The encoded value of a parameter as the URL is to carry it.
UrlValue(a, name, default) ==
    IF Supplies(a, name) THEN Quote(Supplied(a, name).s) ELSE default

TenSeconds ==
    [kind |-> "finite", m |-> 1, e |-> 1]

SpecDefaultURL ==
    <<"h","t","t","p","s",":","/","/","m","a","p","s",".","d","w","d",".","d",
      "e","/","g","e","o","s","e","r","v","e","r","/","d","w","d","/","o","w",
      "s","?","s","e","r","v","i","c","e","=","W","F","S","&","v","e","r","s",
      "i","o","n","=","2",".","0",".","0","&","r","e","q","u","e","s","t","=",
      "G","e","t","F","e","a","t","u","r","e","&","t","y","p","e","n","a","m",
      "e","=","d","w","d","%","3","A","W","a","r","n","u","n","g","e","n","_",
      "G","e","m","e","i","n","d","e","n","&","o","u","t","p","u","t","f","o",
      "r","m","a","t","=","a","p","p","l","i","c","a","t","i","o","n","%","2",
      "F","j","s","o","n">>

CodeDefaultURL ==
    <<"h","t","t","p","s",":","/","/","m","a","p","s",".","d","w","d",".","d",
      "e","/","g","e","o","s","e","r","v","e","r","/","d","w","d","/","o","w",
      "s","?","s","e","r","v","i","c","e","=","W","F","S","&","v","e","r","s",
      "i","o","n","=","2",".","0",".","0","&","r","e","q","u","e","s","t","=",
      "G","e","t","F","e","a","t","u","r","e","&","t","y","p","e","n","a","m",
      "e","=","d","w","d","%","3","A","W","a","r","n","u","n","g","e","n","_",
      "G","e","m","e","i","n","d","e","n","&","o","u","t","p","u","t","f","o",
      "r","m","a","t","=","a","p","p","l","i","c","a","t","i","o","n","/","j",
      "s","o","n">>

WarncellSuffix ==
    <<"&","C","Q","L","_","F","I","L","T","E","R","=","W","A","R","N","C","E",
      "L","L","I","D","%","3","D","8","0","7","0","5","5","0","1","7">>

V_GemeindenTwiceEncoded ==
    <<"d","w","d","%","2","5","3","A","W","a","r","n","u","n","g","e","n","_",
      "G","e","m","e","i","n","d","e","n">>

EndsWith(s, suffix) ==
    /\ Len(s) >= Len(suffix)
    /\ SubSeq(s, Len(s) - Len(suffix) + 1, Len(s)) = suffix

----------------------------------------------------------------------------
\* Properties

Done ==
    pc = "done"

\* The call returned at line 66, the value response.json() gave.
ReturnedDecoded ==
    /\ Done
    /\ outcome = "returned"
    /\ sent # <<>>
    /\ exc = ""

\* The call returned None at line 41 or at line 70.
ReturnedAbsent ==
    /\ Done
    /\ outcome = "returned"
    /\ ~ReturnedDecoded
    /\ result = None

\* C1: a call with str values and no key that lower-cases to typename makes
\* no GET request and returns None, whatever other keys it is given.
C1_MissingTypenameReturnsNone ==
    (AllStr(args) /\ ~Supplies(args, K_typename))
        => /\ sent = <<>>
           /\ Done => (outcome = "returned" /\ result = None)

C1_Witness ==
    /\ Done
    /\ AllStr(args)
    /\ ~Supplies(args, K_typename)
    /\ Supplies(args, K_timeout)
    /\ Supplies(args, K_cql_filter)
    /\ outcome = "returned"
    /\ result = None
    /\ sent = <<>>

\* C2: for every input and every network outcome the call ends by returning
\* (a decoded value or None); no exception leaves query_dwd.
C2_NeverRaises ==
    outcome # "raised"

\* C3: called with only typename = "dwd:Warnungen_Gemeinden", the request
\* goes to the URL that ends in outputformat=application%2Fjson, with
\* timeout 10.0.
C3_DefaultURLAllEncoded ==
    (args = <<Arg(K_typename, Str(V_Gemeinden))>> /\ sent # <<>>)
        => /\ sent[1].url = SpecDefaultURL
           /\ sent[1].timeout = TenSeconds

\* C3 as amended: called with only typename = "dwd:Warnungen_Gemeinden", the
\* request goes to the URL that ends in outputformat=application/json, with
\* timeout 10.0: the supplied typename is percent-encoded, the defaults are
\* inserted as written.
C3_DefaultURL ==
    (args = <<Arg(K_typename, Str(V_Gemeinden))>> /\ sent # <<>>)
        => /\ sent[1].url = CodeDefaultURL
           /\ sent[1].timeout = TenSeconds

C3_Witness ==
    /\ args = <<Arg(K_typename, Str(V_Gemeinden))>>
    /\ Len(sent) = 1
    /\ Done

\* C4: once the GET is made, the call returns the decoded body if and only
\* if the status is 2xx and the body parses; otherwise it returns None.
C4_DecodedIffSuccessStatus ==
    (Done /\ sent # <<>>)
        => LET good == /\ exc \notin RequestFailures
                       /\ response.status \in 200..299
                       /\ JsonDecode(response.body).ok
           IN  /\ ReturnedDecoded <=> good
               /\ good => result = JsonDecode(response.body).val
               /\ ~good => ReturnedAbsent

\* C4 as amended: once the GET is made, the call returns the decoded body if
\* and only if a response arrived whose status is not 4xx or 5xx and whose
\* body parses; for a connection error, a timeout, a 4xx or 5xx status and
\* a malformed body it returns None.
C4_DecodedIffNoHTTPError ==
    (Done /\ sent # <<>>)
        => LET good == /\ exc \notin RequestFailures
                       /\ response.status \notin 400..599
                       /\ response.body \in {BODY_FEATURES, BODY_NULL}
           IN  /\ ReturnedDecoded <=> good
               /\ good => result = (IF response.body = BODY_FEATURES
                                    THEN FeatureCollection ELSE None)
               /\ ~good => ReturnedAbsent

C4_Witness ==
    /\ Done
    /\ sent # <<>>
    /\ response.status = 300
    /\ response.body = BODY_FEATURES
    /\ result = FeatureCollection

\* C5: every call whose input has typename (its values str, as the interface
\* takes them) makes exactly one GET request, never none and never a second.
C5_ExactlyOneGet ==
    (Done /\ AllStr(args) /\ Supplies(args, K_typename)) => Len(sent) = 1

\* C6: the URL is the base, then version, request, typename, outputformat in
\* this order, then CQL_FILTER exactly when cql_filter was supplied; each as
\* key=value after an "&", a supplied value percent-encoded; nothing else
\* (no timeout, no unrecognized key) is in it.
C6_URLShape ==
    query # <<>>
        => /\ query =
                base_url
                \o <<"&">> \o K_version \o <<"=">>
                \o UrlValue(args, K_version, DEFAULT_WFS_VERSION)
                \o <<"&">> \o K_request \o <<"=">>
                \o UrlValue(args, K_request, DEFAULT_WFS_REQUEST)
                \o <<"&">> \o K_typename \o <<"=">>
                \o Quote(Supplied(args, K_typename).s)
                \o <<"&">> \o K_outputformat \o <<"=">>
                \o UrlValue(args, K_outputformat, DEFAULT_WFS_OUTPUTFORMAT)
                \o (IF Supplies(args, K_cql_filter)
                    THEN <<"&">> \o K_CQL_FILTER \o <<"=">>
                         \o Quote(Supplied(args, K_cql_filter).s)
                    ELSE <<>>)
           /\ (Supplies(args, K_cql_filter)
               /\ Supplied(args, K_cql_filter) = Str(V_Warncell))
                  => EndsWith(query, WarncellSuffix)
           /\ \A i \in 1..Len(sent) : sent[i].url = query

C6_Witness ==
    /\ Len(sent) = 1
    /\ Supplies(args, K_cql_filter)
    /\ Supplied(args, K_cql_filter) = Str(V_Warncell)
    /\ EndsWith(sent[1].url, WarncellSuffix)

\* C7: a call whose keys differ only in letter-casing builds the same URL,
\* uses the same timeout and takes the same missing-typename decision.
C7_KeyCaseInsensitive ==
    (Done /\ AllStr(args))
        => \A a2 \in CaseVariants(args) :
              LET kw2 == NormalizeKwargs(a2)
              IN  /\ query # <<>>
                        => HasKey(kw2, K_typename) /\ BuildQuery(kw2) = query
                  /\ timeout # Unset
                        => CoerceTimeout(kw2) = [ok |-> TRUE, val |-> timeout]
                  /\ (outcome = "returned" /\ sent = <<>>)
                        <=> ~HasKey(kw2, K_typename)

C7_Witness ==
    /\ Done
    /\ Len(sent) = 1
    /\ \E i \in 1..Len(args) : args[i].k = K_TypeName
    /\ \E i \in 1..Len(args) : args[i].k = K_CQL_Filter

\* The value the caller gave for the key kwargs holds at position i.
RawOf(i) ==
    Supplied(args, kwargs[i].k).s

\* C8: the encoding of the values is reversible and idempotent: decoding an
\* encoded value gives the value supplied, and encoding an encoded value
\* leaves it unchanged.
C8_ReversibleAndIdempotent ==
    \A i \in 1..Len(kwargs) :
        /\ Unquote(kwargs[i].v) = RawOf(i)
        /\ Quote(kwargs[i].v) = kwargs[i].v

\* C8 as amended: the encoding of the values is reversible, decoding an
\* encoded value gives the value supplied; it is not idempotent: a value
\* with a "%" (an already-encoded one) is encoded again, so that
\* dwd%3AWarnungen_Gemeinden goes into the URL as dwd%253AWarnungen_Gemeinden.
C8_Reversible ==
    \A i \in 1..Len(kwargs) :
        /\ Unquote(kwargs[i].v) = RawOf(i)
        /\ "%" \in Range(RawOf(i)) => kwargs[i].v # RawOf(i)
        /\ RawOf(i) = V_GemeindenEncoded => kwargs[i].v = V_GemeindenTwiceEncoded

C8_Witness ==
    /\ Len(sent) = 1
    /\ Supplied(args, K_typename) = Str(V_GemeindenEncoded)
    /\ DictIndex(kwargs, K_typename) = V_GemeindenTwiceEncoded

\* C9: for a call with typename, the timeout passed to the GET is the float
\* value of the supplied timeout string whenever that is a float literal,
\* and 10.0 when no timeout is supplied.
C9_TimeoutIsFloatOfRaw ==
    (Done /\ AllStr(args) /\ Supplies(args, K_typename))
        => IF Supplies(args, K_timeout)
           THEN ParseFloat(Supplied(args, K_timeout).s).ok
                    => /\ Len(sent) = 1
                       /\ sent[1].timeout
                            = ParseFloat(Supplied(args, K_timeout).s).val
           ELSE /\ Len(sent) = 1
                /\ sent[1].timeout = TenSeconds

\* C10: every call that returns None because of a failure has written a
\* diagnostic, and a call that returns a decoded value has written none.
C10_EveryFailurePrints ==
    /\ ReturnedAbsent => stdout # <<>>
    /\ ReturnedDecoded => stdout = <<>>

\* C10 as amended: a call that returns None after the GET (connection error,
\* timeout, 4xx or 5xx status, malformed body) has written one diagnostic; a
\* call that returns None for the missing typename has written none, nor has
\* a call that returns a decoded value.
C10_FailureAfterGetPrints ==
    /\ (ReturnedAbsent /\ sent # <<>>) => Len(stdout) = 1
    /\ (ReturnedAbsent /\ sent = <<>>) => stdout = <<>>
    /\ ReturnedDecoded => stdout = <<>>

C10_Witness ==
    /\ ReturnedAbsent
    /\ sent # <<>>
    /\ response.status = 500
    /\ stdout = <<"HTTPError">>

====
